---------------------------- MODULE Spec2Model ----------------------------
(***************************************************************************)
(* A model of the review tool: the directory scan and the thread-per-file  *)
(* fan-out of examples/review.py, the CLI entry point main, and the model  *)
(* client DeepSeekAgent of src/deepseek_agent.py (backend selection, the   *)
(* fenced-JSON extraction and the two exception handlers of query).        *)
(*                                                                         *)
(* Text is modelled as a sequence of one-character strings, so that        *)
(* str.endswith, str.split, str.strip, the in operator and slicing are     *)
(* computed the way Python computes them.                                  *)
(***************************************************************************)
EXTENDS Integers, Sequences, FiniteSets

VARIABLES
    \* ---- the file system and scan_directory
    tree,        \* the directory tree under the argument: a sequence of nodes
    scan_pc,     \* "idle" | "returned": a direct call of scan_directory
    scan_ret,    \* what that call returned
    \* ---- run_project_review
    rpr_pc,      \* "idle" | "scan" | "start" | "join" | "returned"
    code_files,  \* local code_files
    threads,     \* threads[k]: "started" | "run" | "append" | "done"
    args,        \* args[k]: the file_path worker k was created with
    joined,      \* how many threads the join loop has joined
    reports,     \* the shared list reports
    raised,      \* indices k whose run_review raised
    completed,   \* indices k whose run_review returned a report
    calls,       \* calls[k]: how often run_review was invoked by worker k
    \* ---- main
    argv,        \* "none" | "missing" | "file" | "dir" | "other"
    main_pc,     \* position in main
    exit_code,   \* -1 while the process runs, then its exit code
    printed,     \* console output, a sequence of lines
    events,      \* what befell the main thread: "interrupt", "exception"
    \* ---- DeepSeekAgent
    config,      \* the configuration file: "absent", or the api_key it holds
    agent_pc,    \* "new" | "ready" | "called" | "replied" | "returned" | "raised"
    use_openai,  \* self.use_openai
    parse_json,  \* the argument parse_json of the running call
    backend,     \* what the backend does when contacted (the environment)
    content_set, \* whether the local content is bound
    content,     \* the local content
    q_result,    \* what query returned, or the exception that left it
    contacted,   \* backends contacted during the running call, in order
    nqueries     \* calls of query so far

vars == <<tree, scan_pc, scan_ret, rpr_pc, code_files, threads, args, joined, reports,
          raised, completed, calls, argv, main_pc, exit_code, printed, events, config, agent_pc,
          use_openai, parse_json, backend, content_set, content, q_result,
          contacted, nqueries>>

scanVars   == <<tree, scan_pc, scan_ret>>
reviewVars == <<rpr_pc, code_files, threads, args, joined, reports, raised, completed,
                calls>>
mainVars   == <<argv, main_pc, exit_code, events>>
agentVars  == <<config, agent_pc, use_openai, parse_json, backend, content_set,
                content, q_result, contacted, nqueries>>

(***************************************************************************)
(* Bounds of the model.                                                    *)
(***************************************************************************)
MaxNodes   == 3    \* nodes of a tree drawn for scan_directory
MaxFiles   == 3    \* code files of a directory handed to run_project_review
MaxPieces  == 4    \* pieces a model reply is concatenated from
MaxQueries == 2    \* calls of query on one agent

(***************************************************************************)
(* Python's string operations, on sequences of characters.                 *)
(***************************************************************************)
Min(S) == CHOOSE x \in S : \A y \in S : x <= y

\* s[:n]
Slice(s, n) == SubSeq(s, 1, IF Len(s) < n THEN Len(s) ELSE n)

\* s.endswith(suffix)
EndsWith(s, suffix) ==
    /\ Len(suffix) <= Len(s)
    /\ SubSeq(s, Len(s) - Len(suffix) + 1, Len(s)) = suffix

\* s.find(sep, from), 1-based; 0 when sep does not occur
Find(s, sep, from) ==
    LET at == {i \in from..(Len(s) - Len(sep) + 1) :
                   s[i] = sep[1] /\ SubSeq(s, i, i + Len(sep) - 1) = sep}
    IN  IF at = {} THEN 0 ELSE Min(at)

\* sep in s
Contains(s, sep) == Find(s, sep, 1) # 0

\* s.split(sep): the pieces between the non-overlapping occurrences of sep,
\* found left to right
RECURSIVE PySplit(_, _)
PySplit(s, sep) ==
    LET i == Find(s, sep, 1)
    IN  IF i = 0 THEN <<s>>
        ELSE <<SubSeq(s, 1, i - 1)>> \o PySplit(SubSeq(s, i + Len(sep), Len(s)), sep)

Whitespace == {" ", "\n", "\t", "\r"}

\* s.strip(): the text from the first to the last character that is no
\* whitespace
RECURSIVE FirstNonWs(_, _)
FirstNonWs(s, i) ==
    IF i > Len(s) THEN i
    ELSE IF s[i] \notin Whitespace THEN i ELSE FirstNonWs(s, i + 1)

RECURSIVE LastNonWs(_, _)
LastNonWs(s, i) ==
    IF i < 1 THEN i
    ELSE IF s[i] \notin Whitespace THEN i ELSE LastNonWs(s, i - 1)

Strip(s) == SubSeq(s, FirstNonWs(s, 1), LastNonWs(s, Len(s)))

RECURSIVE Concat(_)
Concat(ss) == IF ss = <<>> THEN <<>> ELSE Head(ss) \o Concat(Tail(ss))

(***************************************************************************)
(* scan_directory.                                                         *)
(***************************************************************************)
supported_extensions ==
    << <<".", "p", "y">>, <<".", "j", "s">>, <<".", "t", "s">>,
       <<".", "j", "a", "v", "a">>, <<".", "c", "p", "p">>, <<".", "c">>,
       <<".", "g", "o">>, <<".", "r", "b">>, <<".", "p", "h", "p">> >>

\* Variant: the extension anywhere in the name.
IsCodeFileContains(file) ==
    \E e \in 1..Len(supported_extensions) : Contains(file, supported_extensions[e])

\* any(file.endswith(ext) for ext in supported_extensions)
IsCodeFile(file) ==
    \E e \in 1..Len(supported_extensions) : EndsWith(file, supported_extensions[e])

\* os.path.join(root, file)
PathJoin(root, file) == root \o <<"/">> \o file

\* The argument of scan_directory, and the names a tree's nodes take.
TopDir == <<"D">>
FileNames ==
    { <<"a", ".", "p", "y">>, <<"b", ".", "t", "x", "t">>, <<"c", ".", "g", "o">>,
      <<"d", ".", "P", "Y">>, <<"x", ".", "p", "y", "c">>, <<".", "c">>,
      <<"p", "y">> }
DirNames == { <<"s", "u", "b">>, <<"v", ".", "p", "y">> }

\* A node of the tree: its parent (0: the argument directory itself, else an
\* earlier node that is a directory), whether it is a directory, and its name.
\* A directory lists its entries in the order of their indices: the order the
\* file system enumerates them in is whatever the drawn tree makes it.
ChildrenOf(t, d) == {i \in 1..Len(t) : t[i].parent = d}

ValidNodes(t) ==
    {nd \in [parent : 0..Len(t), isdir : BOOLEAN, name : FileNames \cup DirNames] :
        /\ nd.parent # 0 => t[nd.parent].isdir
        /\ nd.isdir <=> nd.name \in DirNames
        /\ \A i \in ChildrenOf(t, nd.parent) : t[i].name # nd.name}

RECURSIVE Trees(_)
Trees(n) ==
    IF n = 0 THEN {<<>>}
    ELSE UNION { {Append(t, nd) : nd \in ValidNodes(t)} : t \in Trees(n - 1) }

\* The entries of directory d in listing order, directories or files.
RECURSIVE Listing(_, _, _, _)
Listing(t, d, dirs, i) ==
    IF i > Len(t) THEN <<>>
    ELSE (IF t[i].parent = d /\ t[i].isdir = dirs THEN <<i>> ELSE <<>>)
         \o Listing(t, d, dirs, i + 1)

\* for root, _, files in os.walk(directory): top-down, each directory's files
\* first, then its subdirectories in listing order.
RECURSIVE Walk(_, _, _)
Walk(t, d, root) ==
    LET files == Listing(t, d, FALSE, 1)
        dirs  == Listing(t, d, TRUE, 1)
        here  == Concat([k \in 1..Len(files) |->
                           IF IsCodeFile(t[files[k]].name)
                           THEN <<PathJoin(root, t[files[k]].name)>> ELSE <<>>])
        below == Concat([k \in 1..Len(dirs) |->
                           Walk(t, dirs[k], PathJoin(root, t[dirs[k]].name))])
    IN  here \o below

scan_directory(t) == Walk(t, 0, TopDir)

\* A direct call of scan_directory on the drawn tree.
ScanCall ==
    /\ scan_pc = "idle"
    /\ scan_ret' = scan_directory(tree)
    /\ scan_pc' = "returned"
    /\ UNCHANGED <<tree, reviewVars, mainVars, printed, agentVars>>

(***************************************************************************)
(* run_project_review: the main thread's steps and the workers' steps.     *)
(***************************************************************************)
\* Variant: an append that races, two writers landing in the same slot.
ListAppendLossy(list, entry) ==
    IF list = <<>> THEN <<entry>> ELSE [list EXCEPT ![Len(list)] = entry]

\* reports.append(entry): one call into the list, which the interpreter runs
\* without another thread's append interleaving with it.
ListAppend(list, entry) == Append(list, entry)

\* What run_review returns for a path: opaque to this code.
Report == "report"

\* code_files = scan_directory(directory); reports = []
RprScan ==
    /\ rpr_pc = "called"
    /\ code_files' = scan_directory(tree)
    /\ reports' = <<>>
    /\ threads' = <<>>
    /\ args' = <<>>
    /\ calls' = <<>>
    /\ rpr_pc' = "start"
    /\ UNCHANGED <<scanVars, joined, raised, completed, mainVars, printed, agentVars>>

\* Variant: a start that waits for the worker started before.
RprStartSerial ==
    /\ rpr_pc = "start"
    /\ Len(threads) < Len(code_files)
    /\ threads = <<>> \/ threads[Len(threads)] = "done"
    /\ threads' = Append(threads, "started")
    /\ args' = Append(args, code_files[Len(threads) + 1])
    /\ calls' = Append(calls, 0)
    /\ UNCHANGED <<scanVars, rpr_pc, code_files, joined, reports, raised,
                   completed, mainVars, printed, agentVars>>

\* One iteration of the first loop: threading.Thread(...); threads.append;
\* thread.start().  Nothing here waits for a thread started before.
RprStart ==
    /\ rpr_pc = "start"
    /\ Len(threads) < Len(code_files)
    /\ threads' = Append(threads, "started")
    /\ args' = Append(args, code_files[Len(threads) + 1])
    /\ calls' = Append(calls, 0)
    /\ UNCHANGED <<scanVars, rpr_pc, code_files, joined, reports, raised,
                   completed, mainVars, printed, agentVars>>

\* The first loop is exhausted.
RprStartDone ==
    /\ rpr_pc = "start"
    /\ Len(threads) = Len(code_files)
    /\ rpr_pc' = "join"
    /\ UNCHANGED <<scanVars, code_files, args, threads, joined, reports, raised, completed,
                   calls, mainVars, printed, agentVars>>

\* Variant: a join that does not wait.
JoinReadyNoWait(k) == TRUE

\* thread.join() returns once that thread has finished.
JoinReady(k) == threads[k] = "done"

\* One iteration of the second loop.
RprJoin ==
    /\ rpr_pc = "join"
    /\ joined < Len(threads)
    /\ JoinReady(joined + 1)
    /\ joined' = joined + 1
    /\ UNCHANGED <<scanVars, rpr_pc, code_files, args, threads, reports, raised, completed,
                   calls, mainVars, printed, agentVars>>

\* return reports
RprReturn ==
    /\ rpr_pc = "join"
    /\ joined = Len(threads)
    /\ rpr_pc' = "returned"
    /\ UNCHANGED <<scanVars, code_files, args, threads, joined, reports, raised, completed,
                   calls, mainVars, printed, agentVars>>

\* Worker k enters review_file and calls run_review(file_path).
WorkerInvoke(k) ==
    /\ threads[k] = "started"
    /\ threads' = [threads EXCEPT ![k] = "run"]
    /\ calls' = [calls EXCEPT ![k] = @ + 1]
    /\ UNCHANGED <<scanVars, rpr_pc, code_files, args, joined, reports, raised,
                   completed, mainVars, printed, agentVars>>

\* run_review returned a report.
WorkerReturn(k) ==
    /\ threads[k] = "run"
    /\ threads' = [threads EXCEPT ![k] = "append"]
    /\ completed' = completed \cup {k}
    /\ UNCHANGED <<scanVars, rpr_pc, code_files, args, joined, reports, raised,
                   calls, mainVars, printed, agentVars>>

\* reports.append((file_path, report)), and the worker ends.
WorkerAppend(k) ==
    /\ threads[k] = "append"
    /\ reports' = ListAppend(reports, <<args[k], Report>>)
    /\ threads' = [threads EXCEPT ![k] = "done"]
    /\ UNCHANGED <<scanVars, rpr_pc, code_files, args, joined, raised, completed,
                   calls, mainVars, printed, agentVars>>

\* Variant: a raise that ends every worker.
RaiseEffectAbort(k) == [j \in 1..Len(threads) |-> "done"]

\* run_review raised.  An Exception is caught in review_file and printed; any
\* other BaseException ends the worker through the threading module's hook.
\* Either way the worker ends without an entry, and nothing reaches the
\* thread that started it or any other worker.
RaiseEffect(k) == [threads EXCEPT ![k] = "done"]

WorkerRaise(k) ==
    /\ threads[k] = "run"
    /\ threads' = RaiseEffect(k)
    /\ raised' = raised \cup {k}
    /\ \E caught \in BOOLEAN :
          printed' = IF caught
                     THEN Append(printed, <<"Error reviewing ", args[k]>>)
                     ELSE printed
    /\ UNCHANGED <<scanVars, rpr_pc, code_files, args, joined, reports, completed, calls,
                   mainVars, agentVars>>

Worker(k) == WorkerInvoke(k) \/ WorkerReturn(k) \/ WorkerAppend(k) \/ WorkerRaise(k)

RprMain == RprScan \/ RprStart \/ RprStartDone \/ RprJoin \/ RprReturn

(***************************************************************************)
(* main.                                                                   *)
(***************************************************************************)
Exit(code, line) ==
    /\ exit_code' = code
    /\ main_pc' = "exit"
    /\ printed' = Append(printed, line)

\* if len(sys.argv) < 2: usage, sys.exit(1)
MainArgs ==
    /\ main_pc = "args"
    /\ IF argv = "none"
       THEN Exit(1, <<"Usage", <<>>>>) /\ UNCHANGED <<argv, events>>
       ELSE main_pc' = "exists" /\ UNCHANGED <<argv, exit_code, events, printed>>
    /\ UNCHANGED <<scanVars, reviewVars, agentVars>>

\* if not os.path.exists(path): "Path not found: {path}", sys.exit(1)
MainExists ==
    /\ main_pc = "exists"
    /\ IF argv = "missing"
       THEN Exit(1, <<"Path not found: ", TopDir>>) /\ UNCHANGED <<argv, events>>
       ELSE main_pc' = "dispatch" /\ UNCHANGED <<argv, exit_code, events, printed>>
    /\ UNCHANGED <<scanVars, reviewVars, agentVars>>

\* Inside the try: isfile, isdir, or sys.exit(1), whose SystemExit is no
\* Exception and so passes both handlers.
MainDispatch ==
    /\ main_pc = "dispatch"
    /\ \/ /\ argv = "file"
          /\ main_pc' = "review_file"
          /\ UNCHANGED <<exit_code, printed, rpr_pc>>
       \/ /\ argv = "dir"
          /\ main_pc' = "review_dir"
          /\ rpr_pc' = "called"
          /\ UNCHANGED <<exit_code, printed>>
       \/ /\ argv = "other"
          /\ Exit(1, <<"Invalid path", <<>>>>)
          /\ UNCHANGED rpr_pc
    /\ UNCHANGED <<scanVars, code_files, threads, args, joined, reports, raised,
                   completed, calls, argv, events, agentVars>>

\* report = run_review(path), in the main thread: it returns, or an exception
\* escapes it into except Exception: traceback, sys.exit(1).
MainReviewFile ==
    /\ main_pc = "review_file"
    /\ \/ /\ main_pc' = "save"
          /\ UNCHANGED <<exit_code, printed, events>>
       \/ /\ Exit(1, <<"Error during review", <<>>>>)
          /\ events' = events \cup {"exception"}
    /\ UNCHANGED <<scanVars, reviewVars, argv, agentVars>>

\* print_report_summary, save_json_report, save_markdown_report and the
\* closing print; an exception escaping any of them ends the same way.
MainSave ==
    /\ main_pc = "save"
    /\ \/ /\ Exit(0, <<"Reports saved", <<>>>>)
          /\ UNCHANGED events
       \/ /\ Exit(1, <<"Error during review", <<>>>>)
          /\ events' = events \cup {"exception"}
    /\ UNCHANGED <<scanVars, reviewVars, argv, agentVars>>

\* Variant: directory mode failing when a review raised.
DirExitCodeStrict == IF raised = {} THEN 0 ELSE 1

\* reports = run_project_review(path) returned: the list is printed and main
\* returns, which ends the process with code 0 whatever the list holds.
DirExitCode == 0

MainDirDone ==
    /\ main_pc = "review_dir"
    /\ rpr_pc = "returned"
    /\ Exit(DirExitCode, <<"Project review complete", <<>>>>)
    /\ UNCHANGED <<scanVars, reviewVars, argv, events, agentVars>>

\* except KeyboardInterrupt: sys.exit(0).  The interrupt reaches the main
\* thread anywhere inside the try; workers already started are not stopped.
MainInterrupt ==
    /\ main_pc \in {"dispatch", "review_file", "save", "review_dir"}
    /\ Exit(0, <<"Review interrupted by user", <<>>>>)
    /\ events' = events \cup {"interrupt"}
    /\ rpr_pc' = IF rpr_pc \in {"idle", "returned"} THEN rpr_pc ELSE "interrupted"
    /\ UNCHANGED <<scanVars, code_files, args, threads, joined, reports, raised,
                   completed, calls, argv, agentVars>>

Main ==
    \/ MainArgs \/ MainExists \/ MainDispatch \/ MainReviewFile \/ MainSave
    \/ MainDirDone \/ MainInterrupt

(***************************************************************************)
(* DeepSeekAgent: the reply texts, json.loads, and the fence extraction.   *)
(***************************************************************************)
SliceLimit == 200

\* The backquote character, which a TLA+ string cannot hold.
Backquote   == "backquote"
Fence       == <<Backquote, Backquote, Backquote>>
TaggedFence == Fence \o <<"j", "s", "o", "n">>

\* The pieces a model reply is made of: the two fence markers, a JSON
\* object, whitespace, and a run of SliceLimit + 1 letters (no JSON).
ObjText  == <<"{", "\"", "x", "\"", ":", " ", "1", "}">>
GapText  == <<" ", "\n">>
LongText == [i \in 1..(SliceLimit + 1) |-> "a"]
Pieces   == {Fence, TaggedFence, ObjText, GapText, LongText}

RECURSIVE TextsOf(_)
TextsOf(n) ==
    IF n = 0 THEN {<<>>} ELSE {t \o p : t \in TextsOf(n - 1), p \in Pieces}

Texts(n) == UNION {TextsOf(k) : k \in 0..n}

\* json.loads on the characters the pieces are made of.  Over these the JSON
\* grammar leaves: numbers that are runs of digits, strings without escapes
\* (a control character inside one is an error), and objects of no member or
\* of one (a second member needs a comma).  A value is <<tag, payload>>.
JsonWs     == {" ", "\n", "\t", "\r"}
JsonDigits == {"0", "1", "2", "3", "4", "5", "6", "7", "8", "9"}

\* The first position from i on that holds no JSON whitespace.
RECURSIVE SkipWs(_, _)
SkipWs(s, i) ==
    IF i > Len(s) THEN Len(s) + 1
    ELSE IF s[i] \notin JsonWs THEN i ELSE SkipWs(s, i + 1)

JsonFail == [ok |-> FALSE, val |-> <<>>, next |-> 0]

\* A string opening at position i.
ParseString(s, i) ==
    LET close == {j \in (i + 1)..Len(s) : s[j] = "\""}
    IN  IF close = {} THEN JsonFail
        ELSE LET j == Min(close)
                 body == SubSeq(s, i + 1, j - 1)
             IN  IF \E k \in 1..Len(body) : body[k] \in {"\n", "\t", "\r"}
                 THEN JsonFail
                 ELSE [ok |-> TRUE, val |-> <<"str", body>>, next |-> j + 1]

\* A number opening at position i: the digits up to the first non-digit.
RECURSIVE SkipDigits(_, _)
SkipDigits(s, i) ==
    IF i > Len(s) THEN Len(s) + 1
    ELSE IF s[i] \notin JsonDigits THEN i ELSE SkipDigits(s, i + 1)

ParseNumber(s, i) ==
    LET e == SkipDigits(s, i)
    IN  IF s[i] = "0"
        THEN [ok |-> TRUE, val |-> <<"num", <<"0">>>>, next |-> i + 1]
        ELSE [ok |-> TRUE, val |-> <<"num", SubSeq(s, i, e - 1)>>, next |-> e]

RECURSIVE ParseValue(_, _)
ParseValue(s, i) ==
    IF i > Len(s) THEN JsonFail
    ELSE IF s[i] = "\"" THEN ParseString(s, i)
    ELSE IF s[i] \in JsonDigits THEN ParseNumber(s, i)
    ELSE IF s[i] = "{" THEN
        LET j == SkipWs(s, i + 1)
        IN  IF j > Len(s) THEN JsonFail
            ELSE IF s[j] = "}"
            THEN [ok |-> TRUE, val |-> <<"obj", <<>>>>, next |-> j + 1]
            ELSE IF s[j] # "\"" THEN JsonFail
            ELSE LET key == ParseString(s, j)
                     c   == SkipWs(s, key.next)
                 IN  IF ~key.ok \/ c > Len(s) THEN JsonFail
                     ELSE IF s[c] # ":" THEN JsonFail
                     ELSE LET v == ParseValue(s, SkipWs(s, c + 1))
                              e == SkipWs(s, v.next)
                          IN  IF ~v.ok \/ e > Len(s) THEN JsonFail
                              ELSE IF s[e] # "}" THEN JsonFail
                              ELSE [ok |-> TRUE,
                                    val |-> <<"obj", <<key.val[2], v.val>>>>,
                                    next |-> e + 1]
    ELSE JsonFail

\* json.loads(s): one value between optional whitespace, and nothing else.
JsonLoads(s) ==
    LET v == ParseValue(s, SkipWs(s, 1))
    IN  IF v.ok /\ SkipWs(s, v.next) = Len(s) + 1 THEN v ELSE JsonFail

\* Variant: the plain fence tried first.
ExtractCandidateUntaggedFirst(text) ==
    IF Contains(text, Fence)
    THEN Strip(PySplit(PySplit(text, Fence)[2], Fence)[1])
    ELSE text

\* The two branches on the tagged fence and on the plain fence, each
\* content.split(fence)[1].split(plain fence)[0].strip().
ExtractCandidate(text) ==
    IF Contains(text, TaggedFence)
    THEN Strip(PySplit(PySplit(text, TaggedFence)[2], Fence)[1])
    ELSE IF Contains(text, Fence)
    THEN Strip(PySplit(PySplit(text, Fence)[2], Fence)[1])
    ELSE text

\* What query hands back: kind "parsed" (the value json.loads gave),
\* "response" ({"response": content}), "error" (a mapping with an error
\* key), or "raised" (an exception left query).
Result(kind, error, raw, value) ==
    [kind |-> kind, error |-> error, raw_response |-> raw, value |-> value]

NoResult == Result("none", "", <<>>, <<>>)

\* Variant: the record cut like the printed line.
RawResponseTruncated(text) == Slice(text, SliceLimit)

\* "raw_response": content.  Only the printed line is content[:200].
RawResponse(text) == text

\* except json.JSONDecodeError: the print and the record both read the local
\* content; where the try block failed before binding it, that read raises
\* UnboundLocalError out of the handler, which no handler of this try catches.

OnJSONDecodeError(bound, text) ==
    IF bound
    THEN Result("error", "json_parse_error", RawResponse(text), <<>>)
    ELSE Result("raised", "UnboundLocalError", <<>>, <<>>)

\* What that handler prints before it returns or raises: the error line,
\* then the line holding content[:200].
PrintedOnJSONDecodeError(bound, text) ==
    IF bound
    THEN << <<"JSON parsing error", <<>>>>,
            <<"Raw response: ", Slice(text, SliceLimit)>> >>
    ELSE << <<"JSON parsing error", <<>>>> >>

\* except Exception: the error is printed and {"error": str(e)} returned.
OnException(message) == Result("error", message, <<>>, <<>>)

PrintedOnException == << <<"Error querying model", <<>>>> >>

\* bool(self.openai_api_key): None and the empty string are false.
PyBool(key) == key \notin {"None", ""}

SelectBackend(cfg) == IF ~cfg.exists THEN FALSE ELSE PyBool(cfg.api_key)

\* DeepSeekAgent.__init__
Construct ==
    /\ agent_pc = "new"
    /\ use_openai' = SelectBackend(config)
    /\ agent_pc' = "ready"
    /\ UNCHANGED <<scanVars, reviewVars, mainVars, printed, config, parse_json,
                   backend, content_set, content, q_result, contacted, nqueries>>

\* A caller enters query(prompt, parse_json).
QueryCall ==
    /\ agent_pc \in {"ready", "returned", "raised"}
    /\ nqueries < MaxQueries
    /\ nqueries' = nqueries + 1
    /\ parse_json' \in BOOLEAN
    /\ agent_pc' = "called"
    /\ contacted' = <<>>
    /\ content_set' = FALSE
    /\ content' = <<>>
    /\ q_result' = NoResult
    /\ UNCHANGED <<scanVars, reviewVars, mainVars, printed, config, use_openai,
                   backend>>

\* The first statement of the try: the selected backend is called.  The
\* hosted path fails in requests.post ("unreachable"), in raise_for_status
\* ("http_error"), in response.json() on a body that is no JSON ("bad_body":
\* requests raises its JSONDecodeError, a subclass of json.JSONDecodeError)
\* or in the subscripts ("bad_shape"); the local path fails inside
\* ollama.chat or in the subscripts.  Failures are handled at once.
QueryBackend ==
    /\ agent_pc = "called"
    /\ contacted' = Append(contacted, IF use_openai THEN "openai" ELSE "ollama")
    /\ \/ /\ backend[1] = "text"
          /\ content' = backend[2]
          /\ content_set' = TRUE
          /\ agent_pc' = "replied"
          /\ UNCHANGED <<q_result, printed>>
       \/ /\ backend[1] = "bad_body" /\ use_openai
          /\ q_result' = OnJSONDecodeError(content_set, content)
          /\ printed' = printed \o PrintedOnJSONDecodeError(content_set, content)
          /\ agent_pc' = IF q_result'.kind = "raised" THEN "raised" ELSE "returned"
          /\ UNCHANGED <<content, content_set>>
       \/ /\ \/ backend[1] \in {"unreachable", "http_error", "bad_shape"}
             \/ backend[1] = "bad_body" /\ ~use_openai
          /\ q_result' = OnException(backend[1])
          /\ printed' = printed \o PrintedOnException
          /\ agent_pc' = "returned"
          /\ UNCHANGED <<content, content_set>>
    /\ UNCHANGED <<scanVars, reviewVars, mainVars, config, use_openai,
                   parse_json, backend, nqueries>>

\* The rest of the try, with content bound: extraction and json.loads when
\* parse_json, else the wrapped text.
QueryFinish ==
    /\ agent_pc = "replied"
    /\ IF parse_json
       THEN /\ content' = ExtractCandidate(content)
            /\ IF JsonLoads(content').ok
               THEN /\ q_result' = Result("parsed", "", <<>>, JsonLoads(content').val)
                    /\ UNCHANGED printed
               ELSE /\ q_result' = OnJSONDecodeError(content_set, content')
                    /\ printed' =
                          printed \o PrintedOnJSONDecodeError(content_set, content')
       ELSE /\ q_result' = Result("response", "", <<>>, content)
            /\ UNCHANGED <<content, printed>>
    /\ agent_pc' = IF q_result'.kind = "raised" THEN "raised" ELSE "returned"
    /\ UNCHANGED <<scanVars, reviewVars, mainVars, config, use_openai,
                   parse_json, backend, content_set, contacted, nqueries>>

Agent == Construct \/ QueryCall \/ QueryBackend \/ QueryFinish

(***************************************************************************)
(* Initial states and specifications.                                      *)
(***************************************************************************)
NoAgent ==
    /\ config = [exists |-> FALSE, api_key |-> "None"] /\ agent_pc = "none" /\ use_openai = FALSE
    /\ parse_json = FALSE /\ backend = <<"none", <<>>>> /\ content_set = FALSE
    /\ content = <<>> /\ q_result = NoResult /\ contacted = <<>>
    /\ nqueries = 0

NoReview ==
    /\ rpr_pc = "idle" /\ code_files = <<>> /\ threads = <<>> /\ args = <<>>
    /\ joined = 0
    /\ reports = <<>> /\ raised = {} /\ completed = {} /\ calls = <<>>

NoMain == argv = "none" /\ main_pc = "none" /\ exit_code = -1 /\ events = {}

NoScan == scan_pc = "none" /\ scan_ret = <<>>

\* scan_directory called on any tree of at most MaxNodes nodes.
InitScan ==
    /\ tree \in UNION {Trees(n) : n \in 0..MaxNodes}
    /\ scan_pc = "idle" /\ scan_ret = <<>>
    /\ NoReview /\ NoMain /\ NoAgent /\ printed = <<>>

NextScan == ScanCall

SpecScan == InitScan /\ [][NextScan]_vars

\* A directory holding n code files, some of them one level down, beside a
\* file that is no code file.
Digits == <<"1", "2", "3", "4", "5", "6", "7", "8", "9">>

ReviewTree(n) ==
    << [parent |-> 0, isdir |-> TRUE,  name |-> <<"s", "u", "b">>],
       [parent |-> 0, isdir |-> FALSE, name |-> <<"b", ".", "t", "x", "t">>] >>
    \o [i \in 1..n |->
          [parent |-> IF i % 2 = 0 THEN 1 ELSE 0, isdir |-> FALSE,
           name |-> <<Digits[i], ".", "p", "y">>]]

\* run_project_review called on such a directory.
InitReview ==
    /\ \E n \in 0..MaxFiles : tree = ReviewTree(n)
    /\ NoScan /\ NoMain /\ NoAgent /\ printed = <<>>
    /\ rpr_pc = "called" /\ code_files = <<>> /\ threads = <<>> /\ args = <<>>
    /\ joined = 0
    /\ reports = <<>> /\ raised = {} /\ completed = {} /\ calls = <<>>

NextReview == RprMain \/ \E k \in 1..Len(threads) : Worker(k)

SpecReview == InitReview /\ [][NextReview]_vars

\* Every thread the interpreter runs keeps being scheduled, and every
\* run_review call returns or raises.
SpecReviewFair ==
    /\ SpecReview
    /\ WF_vars(RprMain)
    /\ \A k \in 1..MaxFiles : WF_vars(k \in 1..Len(threads) /\ Worker(k))

\* The process started with any command line.
InitMain ==
    /\ argv \in {"none", "missing", "file", "dir", "other"}
    /\ \E n \in 0..MaxFiles : tree = ReviewTree(n)
    /\ main_pc = "args" /\ exit_code = -1 /\ events = {} /\ printed = <<>>
    /\ NoScan /\ NoReview /\ NoAgent

NextMain == Main \/ RprMain \/ \E k \in 1..Len(threads) : Worker(k)

SpecMain == InitMain /\ [][NextMain]_vars

\* The configuration file: absent, or present with no api_key, an empty one,
\* or a credential.
Configs ==
    {[exists |-> FALSE, api_key |-> "None"]}
    \cup {[exists |-> TRUE, api_key |-> k] : k \in {"None", "", "sk-1"}}

Failures == {"unreachable", "http_error", "bad_body", "bad_shape"}

InitAgent(cfgs, texts) ==
    /\ config \in cfgs
    /\ backend \in {<<f, <<>>>> : f \in Failures} \cup {<<"text", t>> : t \in texts}
    /\ agent_pc = "new" /\ use_openai = FALSE /\ parse_json = FALSE
    /\ content_set = FALSE /\ content = <<>> /\ q_result = NoResult
    /\ contacted = <<>> /\ nqueries = 0
    /\ NoScan /\ NoReview /\ NoMain /\ printed = <<>>
    /\ tree = <<>>

\* An agent built from any configuration, queried against a backend that
\* fails in any of the ways above or answers one of a few texts.
InitQuery == InitAgent(Configs, Texts(1))

SpecQuery == InitQuery /\ [][Agent]_vars

\* An agent queried against a backend that answers any text of at most
\* MaxPieces pieces.
InitExtract == InitAgent({c \in Configs : c.api_key \in {"None", "sk-1"} /\ c.exists}, Texts(MaxPieces))

SpecExtract == InitExtract /\ [][Agent]_vars

(***************************************************************************)
(* Properties.                                                             *)
(***************************************************************************)
Range(f) == {f[i] : i \in DOMAIN f}

ReportPaths == [i \in 1..Len(reports) |-> reports[i][1]]

NoDuplicates(seq) == \A i, j \in 1..Len(seq) : seq[i] = seq[j] => i = j

\* C1: whatever the interleaving of the workers, the returned list holds one
\* entry for each discovered file whose run_review did not raise and nothing
\* else: its length is N minus the number that raised, every path is a
\* discovered path, no path comes twice; and at every moment the list holds
\* exactly the entries of the workers that have appended (none lost, none
\* doubled).
C1_EntriesExact ==
    /\ NoDuplicates(ReportPaths)
    /\ Range(ReportPaths) \subseteq Range(code_files)
    /\ Range(ReportPaths) =
          {args[k] : k \in {j \in 1..Len(threads) :
                               threads[j] = "done" /\ j \in completed}}
    /\ rpr_pc = "returned" =>
          Len(reports) = Len(code_files) - Cardinality(raised)

\* All MaxFiles workers ran, one raised, and the appends of the others came
\* in another order than the files were discovered in.
C1_Witness ==
    /\ rpr_pc = "returned"
    /\ Len(code_files) = MaxFiles
    /\ Cardinality(raised) = 1
    /\ Len(reports) >= 2
    /\ \E i, j \in 1..Len(reports) :
          /\ i < j
          /\ \E a, b \in 1..Len(code_files) :
                a > b /\ code_files[a] = reports[i][1] /\ code_files[b] = reports[j][1]

\* C2: when run_project_review returns, a file whose run_review raised has
\* no entry, every file whose run_review returned has one, and every
\* discovered file was reviewed to its end (exactly one call, which returned
\* or raised): a raise neither leaves run_project_review nor stops or skips
\* a sibling.
C2_FailureIsolated ==
    rpr_pc = "returned" =>
        \A k \in 1..Len(code_files) :
            /\ k <= Len(threads)
            /\ calls[k] = 1
            /\ k \in raised \cup completed
            /\ k \in raised => code_files[k] \notin Range(ReportPaths)
            /\ k \in completed => code_files[k] \in Range(ReportPaths)

\* A run that returned with a file that raised and files that did not.
C2_Witness ==
    /\ rpr_pc = "returned"
    /\ raised # {}
    /\ Cardinality(completed) >= 2

\* C3: in the state where run_project_review returns every worker it started
\* has finished, the list does not change after the return, and under fair
\* scheduling with every run_review call ending, it does return.
C3_ReturnsAfterAllFinish ==
    /\ [](rpr_pc = "returned" =>
             /\ Len(threads) = Len(code_files)
             /\ \A k \in 1..Len(threads) : threads[k] = "done")
    /\ [][rpr_pc = "returned" => reports' = reports]_vars
    /\ <>(rpr_pc = "returned")

\* A return after at least two workers.
C3_Witness ==
    /\ rpr_pc = "returned"
    /\ Len(threads) >= 2
    /\ joined = Len(threads)

\* C9: one worker per discovered path, created with that path, in discovery
\* order; each calls run_review at most once, and exactly once by the time
\* of the return; no join happens before every worker is started; and the
\* next worker can always be started, whatever state the earlier ones are in.
C9_OneWorkerPerFile ==
    /\ Len(threads) <= Len(code_files)
    /\ args = SubSeq(code_files, 1, Len(threads))
    /\ \A k \in 1..Len(threads) : calls[k] <= 1
    /\ (rpr_pc \in {"join", "returned"} \/ joined > 0) =>
          Len(threads) = Len(code_files)
    /\ rpr_pc = "returned" => \A k \in 1..Len(threads) : calls[k] = 1
    /\ (rpr_pc = "start" /\ Len(threads) < Len(code_files)) => ENABLED RprStart

\* All MaxFiles workers are inside run_review at once.
C9_Witness ==
    /\ Len(code_files) = MaxFiles
    /\ Len(threads) = MaxFiles
    /\ \A k \in 1..Len(threads) : threads[k] = "run"

\* C7: the exit code of the process: 1 without a path argument; 1 for a path
\* that does not exist, after the line "Path not found: <path>"; 0 on an
\* interrupt; 1 for a path that is neither file nor directory; 1 when an
\* exception escapes the single-file review; 0 otherwise, and in directory
\* mode 0 whether or not reviews of single files raised.
C7_ExitCodes ==
    main_pc = "exit" =>
        /\ exit_code =
              IF argv \in {"none", "missing"} THEN 1
              ELSE IF "interrupt" \in events THEN 0
              ELSE IF argv = "other" THEN 1
              ELSE IF "exception" \in events THEN 1
              ELSE 0
        /\ argv = "missing" =>
              printed[Len(printed)] = <<"Path not found: ", TopDir>>
        /\ argv = "dir" => exit_code = 0

\* Directory mode ran to its end, uninterrupted, with a review that raised.
C7_Witness ==
    /\ main_pc = "exit"
    /\ argv = "dir"
    /\ "interrupt" \notin events
    /\ raised # {}
    /\ exit_code = 0

\* C8: scan_directory returns each file under the directory, at any depth,
\* whose name ends (case-sensitively) with an allowed extension, once, and
\* nothing else.
AllowedSuffixes ==
    { <<".", "p", "y">>, <<".", "j", "s">>, <<".", "t", "s">>,
      <<".", "j", "a", "v", "a">>, <<".", "c", "p", "p">>, <<".", "c">>,
      <<".", "g", "o">>, <<".", "r", "b">>, <<".", "p", "h", "p">> }

HasAllowedSuffix(name) ==
    \E x \in AllowedSuffixes :
        /\ Len(name) >= Len(x)
        /\ \A j \in 1..Len(x) : name[Len(name) - Len(x) + j] = x[j]

RECURSIVE FullPath(_, _)
FullPath(t, i) ==
    IF i = 0 THEN TopDir ELSE FullPath(t, t[i].parent) \o <<"/">> \o t[i].name

C8_ScanExact ==
    scan_pc = "returned" =>
        /\ Range(scan_ret) =
              {FullPath(tree, i) : i \in {j \in 1..Len(tree) :
                  ~tree[j].isdir /\ HasAllowedSuffix(tree[j].name)}}
        /\ NoDuplicates(scan_ret)

\* A tree with a code file one level down, a file named d.PY and a file
\* named x.pyc, of which only the first is returned.
C8_Witness ==
    /\ scan_pc = "returned"
    /\ Len(scan_ret) = 1
    /\ \E i, j, k \in 1..Len(tree) :
          /\ tree[i].isdir /\ tree[j].parent = i /\ ~tree[j].isdir
          /\ scan_ret[1] = FullPath(tree, j)
          /\ tree[k].name \in {<<"d", ".", "P", "Y">>, <<"x", ".", "p", "y", "c">>}

\* The reply text of the call that ended, and the candidate the priority
\* tagged fence, plain fence, raw text gives for it: the text from the end
\* of the first opening fence to the next plain fence after it (to the end
\* of the text when there is none), trimmed.
ReplyText == backend[2]

AfterFence(text, fence) ==
    LET open  == Find(text, fence, 1) + Len(fence)
        close == Find(text, Fence, open)
    IN  Strip(SubSeq(text, open, IF close = 0 THEN Len(text) ELSE close - 1))

Candidate(text) ==
    IF Contains(text, TaggedFence) THEN AfterFence(text, TaggedFence)
    ELSE IF Contains(text, Fence) THEN AfterFence(text, Fence)
    ELSE text

ParsedCall ==
    /\ agent_pc \in {"returned", "raised"}
    /\ backend[1] = "text"
    /\ parse_json

\* C4: no exception leaves query.
C4_NeverRaises == agent_pc # "raised"

C10_BackendFixed ==
    /\ agent_pc # "new" =>
          use_openai = (config.exists /\ config.api_key \notin {"None", ""})
    /\ Len(contacted) <= 1
    /\ \A i \in 1..Len(contacted) :
          contacted[i] = IF use_openai THEN "openai" ELSE "ollama"
    /\ (agent_pc \in {"returned", "raised"} /\ backend[1] \in Failures) =>
          /\ agent_pc = "returned"
          /\ q_result.kind = "error"

=============================================================================
